---------------------------- MODULE Spec2Model ----------------------------
(***************************************************************************)
(* pip2sysdep: the Pip2SysDep resolver of src/src/pip2sysdep/__init__.py.  *)
(*                                                                         *)
(* Python strings are sequences of one-character strings, so that          *)
(* startswith, concatenation, sorting, joining and Template substitution   *)
(* are computed and not assumed.  A Python dict is the function of its     *)
(* entries; of a mapping document only the entries the code can tell apart *)
(* are kept (list-valued entries, package tables, command templates and    *)
(* the two string fields of __meta__).                                     *)
(***************************************************************************)
EXTENDS Integers, Sequences, FiniteSets, TLC

\* ------------------------------------------------------------------------
\* Bounds of the model
\* ------------------------------------------------------------------------

\* Number of threads sharing the one resolver instance (Spec).
NumThreads == 2

\* Number of API calls the single caller of SpecSeq makes.
MaxCalls == 3

\* Longest pip_packages list passed to convert_list in SpecSeq.
MaxListLen == 2

\* Depth at which the interpreter gives up a recursion (RecursionError);
\* every acyclic document of Docs nests groups less deeply than this.
MaxDepth == 4

\* Number of pieces (a word, or a flag with its value) of a command line.
MaxArgs == 3

\* ------------------------------------------------------------------------
\* Strings
\* ------------------------------------------------------------------------

\* The characters that occur, in code point order (what sorted() compares).
Alphabet ==
    << " ", "$", "-", "0", "1", "2", "3", "_",
       "a", "b", "c", "d", "e", "f", "g", "h", "i", "j", "k", "l", "m",
       "n", "o", "p", "q", "r", "s", "t", "u", "v", "w", "x", "y", "z",
       "{", "}" >>

Ord(c) == CHOOSE i \in 1..Len(Alphabet) : Alphabet[i] = c

Min(a, b) == IF a <= b THEN a ELSE b

\* s < t for Python strings: the first differing character decides, a
\* proper prefix is smaller.
StrLess(s, t) ==
    \E k \in 1..(Min(Len(s), Len(t)) + 1) :
        /\ \A j \in 1..(k - 1) : s[j] = t[j]
        /\ \/ k > Len(s) /\ k <= Len(t)
           \/ k <= Len(s) /\ k <= Len(t) /\ Ord(s[k]) < Ord(t[k])

\* str.startswith
StartsWith(s, p) ==
    /\ Len(s) >= Len(p)
    /\ \A i \in 1..Len(p) : s[i] = p[i]

\* sub in s
Contains(s, sub) ==
    \E i \in 0..(Len(s) - Len(sub)) :
        \A j \in 1..Len(sub) : s[i + j] = sub[j]

RECURSIVE Join(_, _)
\* sep.join(parts)
Join(parts, sep) ==
    IF parts = << >> THEN << >>
    ELSE IF Len(parts) = 1 THEN parts[1]
    ELSE parts[1] \o sep \o Join(Tail(parts), sep)

RECURSIVE SortedList(_)
\* sorted(S) of a set of strings
SortedList(S) ==
    IF S = {} THEN << >>
    ELSE LET m == CHOOSE x \in S : \A y \in S : x = y \/ StrLess(x, y)
         IN  << m >> \o SortedList(S \ {m})

Range(s) == { s[i] : i \in 1..Len(s) }

RECURSIVE Flatten(_)
\* all_deps.extend(deps) for every value of the dict
Flatten(lists) ==
    IF lists = << >> THEN << >>
    ELSE Head(lists) \o Flatten(Tail(lists))

UU == << "_", "_" >>
SPACE == << " " >>

\* Tokens and strings used by the documents below.
foo  == << "f", "o", "o" >>
bar  == << "b", "a", "r" >>
baz  == << "b", "a", "z" >>
qux  == << "q", "u", "x" >>
libx == << "l", "i", "b", "x" >>
liby == << "l", "i", "b", "y" >>
libz == << "l", "i", "b", "z" >>
gcc  == << "g", "c", "c" >>
dev  == << "d", "e", "v" >>
EMPTY == << >>
g_always  == << "_", "_", "a", "l", "w", "a", "y", "s", "_", "_" >>
g_dev     == << "_", "_", "d", "e", "v", "_", "_" >>
g_build   == << "_", "_", "b", "u", "i", "l", "d", "_", "_" >>
g_missing == << "_", "_", "m", "i", "s", "s", "i", "n", "g", "_", "_" >>
g_loop    == << "_", "_", "l", "o", "o", "p", "_", "_" >>
g_root    == << "_", "_", "r", "o", "o", "t", "_", "_" >>
g_meta    == << "_", "_", "m", "e", "t", "a", "_", "_" >>
extras    == << "e", "x", "t", "r", "a", "s" >>

apt == << "a", "p", "t" >>
dnf == << "d", "n", "f" >>
s_install_y == << " ", "i", "n", "s", "t", "a", "l", "l", " ", "-", "y" >>
s_update    == << " ", "u", "p", "d", "a", "t", "e" >>
package_manager ==
    << "p", "a", "c", "k", "a", "g", "e", "_",
       "m", "a", "n", "a", "g", "e", "r" >>
\* "${package_manager}"
Placeholder == << "$", "{" >> \o package_manager \o << "}" >>
\* 'apt install -y', the hard default of get_install_command
DefaultInstall == apt \o s_install_y


\* ------------------------------------------------------------------------
\* Mapping documents (what tomllib.load returns)
\* ------------------------------------------------------------------------

\* {} : the dict with no entries.
EmptyDict == << >>

\* A document keeps: groups, the list-valued entries of __meta__;
\* rootLists, the list-valued entries of the document root; pkgs, the
\* 'deps' list of every package table; commands, the [__meta__.commands]
\* table; strs, the string entries of __meta__ ('install_command',
\* 'package_manager').
MkDoc(groups, rootLists, pkgs, commands, strs) ==
    [ groups |-> groups, rootLists |-> rootLists, pkgs |-> pkgs,
      commands |-> commands, strs |-> strs ]

\* tests/test_basic.py test_meta_group_expansion
DocMetaGroup ==
    MkDoc( (g_always :> << foo, bar >>) @@ (g_dev :> << baz, qux >>),
           EmptyDict,
           ("pkg" :> << g_dev, libx, liby >>) @@ ("otherpkg" :> << libz >>),
           EmptyDict, EmptyDict )

\* tests/test_basic.py test_recursive_meta_group
DocRecursive ==
    MkDoc( (g_always :> << foo >>) @@ (g_dev :> << bar, g_build >>)
               @@ (g_build :> << baz >>),
           EmptyDict,
           ("pkg" :> << g_dev, libx >>),
           EmptyDict, EmptyDict )

\* tests/test_basic.py test_duplicate_removal
DocDuplicate ==
    MkDoc( (g_always :> << foo, bar >>) @@ (g_dev :> << bar, baz >>),
           EmptyDict,
           ("pkg" :> << g_dev, foo, baz >>),
           EmptyDict, EmptyDict )

\* A baseline whose expansion repeats a token, a bare group name (dev), a
\* list-valued __meta__ key without delimiters, a commands table with the
\* placeholder and a declared package manager.
DocCommands ==
    MkDoc( (g_always :> << g_dev, gcc, foo >>) @@ (g_dev :> << gcc, bar >>)
               @@ (extras :> << qux >>),
           EmptyDict,
           ("pkg" :> << bar, dev, libx >>) @@ ("otherpkg" :> << extras, libx >>),
           ("install" :> (Placeholder \o s_install_y))
               @@ ("update" :> (Placeholder \o s_update)),
           ("package_manager" :> dnf) )

\* No baseline; a group defined at the document root, a reference without
\* definition, an empty token, the name of the metadata table used as a
\* token; the commands table declares an empty
\* 'install' and the legacy install_command is declared.
DocLegacy ==
    MkDoc( (g_dev :> << baz >>),
           (g_root :> << qux >>),
           ("pkg" :> << g_root, g_missing, g_dev >>)
               @@ ("otherpkg" :> << EMPTY, g_meta >>),
           ("install" :> EMPTY),
           ("install_command" :> (dnf \o s_install_y)) )

\* A group that names itself; no commands table, the legacy
\* install_command only.
DocCyclic ==
    MkDoc( (g_always :> << foo >>) @@ (g_loop :> << bar, g_loop >>),
           EmptyDict,
           ("pkg" :> << g_loop >>) @@ ("otherpkg" :> << libz >>),
           EmptyDict,
           ("install_command" :> (dnf \o s_install_y)) )

\* A baseline that never finishes expanding.
DocCyclicAlways ==
    MkDoc( (g_always :> << foo, g_loop >>) @@ (g_loop :> << g_loop >>),
           EmptyDict,
           ("pkg" :> << libx >>),
           EmptyDict, EmptyDict )

s_remove == << " ", "r", "e", "m", "o", "v", "e" >>

\* A group whose definition holds its own name without the delimiters;
\* command templates with '$$', with a second placeholder and with a '$'
\* that starts none.
DocBareLoop ==
    MkDoc( (g_always :> << foo >>) @@ (g_dev :> << bar, dev >>),
           EmptyDict,
           ("pkg" :> << g_dev >>) @@ ("otherpkg" :> << libz >>),
           ("install" :> (Placeholder \o s_install_y \o << " ", "$", "$" >>))
               @@ ("update" :> (Placeholder \o s_update \o << " ", "$", "x" >>))
               @@ ("remove" :> (Placeholder \o s_remove \o << " ", "$", "-" >>)),
           EmptyDict )

\* An empty mapping file.
DocEmpty == MkDoc(EmptyDict, EmptyDict, EmptyDict, EmptyDict, EmptyDict)

Docs == << DocMetaGroup, DocRecursive, DocDuplicate, DocCommands,
           DocLegacy, DocCyclic, DocCyclicAlways, DocBareLoop, DocEmpty >>

DocIds == 1..Len(Docs)

\* self._content = None
None == 0

\* Package names callers ask for.
PkgNames == { "pkg", "otherpkg", "nonexistent" }

\* ------------------------------------------------------------------------
\* Group expansion: Pip2SysDep._expand_deps
\* ------------------------------------------------------------------------

\* A mapping as _expand_deps reads it: lists, its list-valued entries and
\* its entry '__meta__' if it has one, and meta, the list-valued entries
\* of mapping.get('__meta__', {}).
MkMapping(lists, meta) == [ lists |-> lists, meta |-> meta ]

\* What a loop over the table __meta__ would go through: its keys.
MetaKeys(doc) == SortedList(DOMAIN doc.groups)

\* Variant: the whole document is passed, its root-level lists included.
WholeDocumentMapping(doc) ==
    MkMapping(doc.rootLists @@ (g_meta :> MetaKeys(doc)), doc.groups)

\* {'__meta__': meta}: the only entry is a dict, no entry is a list.
MetaOnlyMapping(doc) == MkMapping((g_meta :> MetaKeys(doc)), doc.groups)

\* Variant: a group's definition is expanded against an empty mapping, so
\* references nested in it are not followed.
MetaAsMappingEmpty(mapping) == MkMapping(EmptyDict, EmptyDict)

\* meta passed as the mapping of the recursive call; a __meta__ table holds
\* no __meta__ table of its own, so its .get('__meta__', {}) is {}.
MetaAsMapping(mapping) == MkMapping(mapping.meta, EmptyDict)

\* '__' + item + '__'
Wrap(item) == UU \o item \o UU

\* Variant: the type of the entry is not looked at.
IsListInAnyType(d, key) == key \in DOMAIN d

\* key in d and isinstance(d[key], list): of the entries kept, '__meta__'
\* is the one that is a table.
IsListIn(d, key) == key \in DOMAIN d /\ key # g_meta

\* Variant: a bare name is never promoted to __name__.
LookupAsWritten(mapping, item) == item

\* lines 79-85: the key looked up for item
Lookup(mapping, item) ==
    IF ~StartsWith(item, UU) /\ IsListIn(mapping.lists, Wrap(item))
    THEN Wrap(item)
    ELSE IF ~StartsWith(item, UU) /\ IsListIn(mapping.meta, Wrap(item))
    THEN Wrap(item)
    ELSE item

Ok(out) == [ ok |-> TRUE, out |-> out ]
\* the recursion did not come back (RecursionError)
Overflow == [ ok |-> FALSE, out |-> << >> ]

RECURSIVE ExpandDepsGroupLast(_, _, _)
\* Variant: the expansion of a group is appended after the tokens that
\* follow the reference, instead of taking the reference's position.
ExpandDepsGroupLast(mapping, items, depth) ==
    IF depth > MaxDepth THEN Overflow
    ELSE IF items = << >> THEN Ok(<< >>)
    ELSE LET item   == Head(items)
             lookup == Lookup(mapping, item)
             isList == IsListIn(mapping.lists, lookup)
                           \/ IsListIn(mapping.meta, lookup)
             first  ==
                 IF IsListIn(mapping.lists, lookup)
                 THEN ExpandDepsGroupLast(mapping, mapping.lists[lookup],
                                          depth + 1)
                 ELSE IF IsListIn(mapping.meta, lookup)
                 THEN ExpandDepsGroupLast(MetaAsMapping(mapping),
                                          mapping.meta[lookup], depth + 1)
                 ELSE Ok(<< item >>)
             rest   == ExpandDepsGroupLast(mapping, Tail(items), depth)
         IN  IF first.ok /\ rest.ok
             THEN IF isList THEN Ok(rest.out \o first.out)
                  ELSE Ok(first.out \o rest.out)
             ELSE Overflow

RECURSIVE ExpandDeps(_, _, _)
\* _expand_deps(mapping, items), entered at recursion depth `depth`
ExpandDeps(mapping, items, depth) ==
    IF depth > MaxDepth THEN Overflow
    ELSE IF items = << >> THEN Ok(<< >>)
    ELSE LET item   == Head(items)
             lookup == Lookup(mapping, item)
             first  ==
                 IF IsListIn(mapping.lists, lookup)
                 THEN ExpandDeps(mapping, mapping.lists[lookup], depth + 1)
                 ELSE IF IsListIn(mapping.meta, lookup)
                 THEN ExpandDeps(MetaAsMapping(mapping), mapping.meta[lookup],
                                 depth + 1)
                 ELSE Ok(<< item >>)
             rest   == ExpandDeps(mapping, Tail(items), depth)
         IN  IF first.ok /\ rest.ok THEN Ok(first.out \o rest.out)
             ELSE Overflow

\* str.endswith
EndsWith(s, p) ==
    /\ Len(s) >= Len(p)
    /\ \A i \in 1..Len(p) : s[Len(s) - Len(p) + i] = p[i]

RECURSIVE LegacyExpandDeps(_, _, _)
\* _expand_deps({'__meta__': meta}, items) of the module file
\* src/src/pip2sysdep.py: only a token that starts and ends with '__' is
\* looked up, and only in meta.
LegacyExpandDeps(meta, items, depth) ==
    IF depth > MaxDepth THEN Overflow
    ELSE IF items = << >> THEN Ok(<< >>)
    ELSE LET item  == Head(items)
             first ==
                 IF /\ StartsWith(item, UU) /\ EndsWith(item, UU)
                    /\ IsListIn(meta, item)
                 THEN LegacyExpandDeps(meta, meta[item], depth + 1)
                 ELSE Ok(<< item >>)
             rest  == LegacyExpandDeps(meta, Tail(items), depth)
         IN  IF first.ok /\ rest.ok THEN Ok(first.out \o rest.out)
             ELSE Overflow

\* ------------------------------------------------------------------------
\* Pip2SysDep.convert and convert_list
\* ------------------------------------------------------------------------

RECURSIVE DedupFrom(_, _)
\* [x for x in result if not (x in seen or seen.add(x))]
DedupFrom(result, seen) ==
    IF result = << >> THEN << >>
    ELSE IF Head(result) \in seen THEN DedupFrom(Tail(result), seen)
    ELSE << Head(result) >> \o DedupFrom(Tail(result), seen \cup {Head(result)})

Dedup(result) == DedupFrom(result, {})

\* Variant: the baseline group is forgotten.
ExpandAlwaysNothing(doc) == Ok(<< >>)

\* if '__always__' in meta: result.extend(_expand_deps(..., meta['__always__']))
ExpandAlways(doc) ==
    IF g_always \in DOMAIN doc.groups
    THEN ExpandDeps(MetaOnlyMapping(doc), doc.groups[g_always], 1)
    ELSE Ok(<< >>)

\* content.get(pip_package, {}).get('deps', [])
PkgDeps(doc, pip_package) ==
    IF pip_package \in DOMAIN doc.pkgs THEN doc.pkgs[pip_package] ELSE << >>

ExpandPkg(doc, pip_package) ==
    ExpandDeps(MetaOnlyMapping(doc), PkgDeps(doc, pip_package), 1)

\* Variant: the package's tokens are collected before the baseline.
CollectedPackageFirst(always, deps) == deps \o always

\* result after both extends (lines 98-104)
Collected(always, deps) == always \o deps

NoError == "none"

Result(err, all) == [ err |-> err, all |-> all ]

\* convert(pip_package) on the document content: {'all': flat}, or the
\* exception that leaves it
Convert(doc, pip_package) ==
    LET always == ExpandAlways(doc)
        deps   == ExpandPkg(doc, pip_package)
    IN  IF always.ok /\ deps.ok
        THEN Result(NoError, Dedup(Collected(always.out, deps.out)))
        ELSE Result("RecursionError", << >>)

\* convert(pip_package) of the module file src/src/pip2sysdep.py
LegacyConvert(doc, pip_package) ==
    LET always == IF g_always \in DOMAIN doc.groups
                  THEN LegacyExpandDeps(doc.groups, doc.groups[g_always], 1)
                  ELSE Ok(<< >>)
        deps   == LegacyExpandDeps(doc.groups, PkgDeps(doc, pip_package), 1)
    IN  IF always.ok /\ deps.ok
        THEN Result(NoError, Dedup(always.out \o deps.out))
        ELSE Result("RecursionError", << >>)

\* Variant: convert_list appends without looking at seen.
MergeDepsNoSeen(acc, deps) ==
    [ all_flat |-> acc.all_flat \o deps, seen |-> acc.seen \cup Range(deps) ]

RECURSIVE MergeDeps(_, _)
\* for dep in deps: if dep not in seen: all_flat.append(dep); seen.add(dep)
MergeDeps(acc, deps) ==
    IF deps = << >> THEN acc
    ELSE IF Head(deps) \in acc.seen THEN MergeDeps(acc, Tail(deps))
    ELSE MergeDeps([ all_flat |-> Append(acc.all_flat, Head(deps)),
                     seen |-> acc.seen \cup {Head(deps)} ], Tail(deps))

\* all_flat = [] ; seen = set()
EmptyAcc == [ all_flat |-> << >>, seen |-> {} ]

\* ------------------------------------------------------------------------
\* Pip2SysDep.get_install_command
\* ------------------------------------------------------------------------

\* d.get(key), None (falsy) when absent: the empty string stands for both
\* None and '', which `or` and `not` treat alike.
GetOrFalsy(d, key) == IF key \in DOMAIN d THEN d[key] ELSE EMPTY

\* d.get(key, default)
GetOr(d, key, default) == IF key \in DOMAIN d THEN d[key] ELSE default

\* Variant: the commands table is ignored for 'install'.
PyOrSecond(a, b) == b

\* a or b
PyOr(a, b) == IF a # EMPTY THEN a ELSE b

\* lines 155-160: the template of `command`, or ValueError
InstallCmd(doc, command) ==
    IF command = "install"
    THEN [ err |-> NoError,
           cmd |-> PyOr(GetOrFalsy(doc.commands, "install"),
                        GetOr(doc.strs, "install_command", DefaultInstall)) ]
    ELSE IF GetOrFalsy(doc.commands, command) = EMPTY
    THEN [ err |-> "ValueError", cmd |-> EMPTY ]
    ELSE [ err |-> NoError, cmd |-> doc.commands[command] ]

\* [_a-z] and [_a-z0-9] of string.Template's identifier pattern
IdStart(c) == c = "_" \/ (Ord(c) >= Ord("a") /\ Ord(c) <= Ord("z"))
IdChar(c) == IdStart(c) \/ (Ord(c) >= Ord("0") /\ Ord(c) <= Ord("3"))

RECURSIVE IdEnd(_, _)
\* the last position of the longest identifier of s that starts at i
IdEnd(s, i) ==
    IF i < Len(s) /\ IdChar(s[i + 1]) THEN IdEnd(s, i + 1) ELSE i

RECURSIVE SubstituteFrom(_, _, _)
\* Template(s).substitute(package_manager=pm), from position i on: '$$' is
\* '$', '$name' and '${name}' are mapping[name] (KeyError for another
\* name), any other '$' is a ValueError.
SubstituteFrom(s, i, pm) ==
    IF i > Len(s) THEN [ err |-> NoError, cmd |-> << >> ]
    ELSE IF s[i] # "$"
    THEN LET r == SubstituteFrom(s, i + 1, pm)
         IN  [ err |-> r.err, cmd |-> << s[i] >> \o r.cmd ]
    ELSE IF i < Len(s) /\ s[i + 1] = "$"
    THEN LET r == SubstituteFrom(s, i + 2, pm)
         IN  [ err |-> r.err, cmd |-> << "$" >> \o r.cmd ]
    ELSE IF i < Len(s) /\ IdStart(s[i + 1])
    THEN LET e == IdEnd(s, i + 1)
             r == SubstituteFrom(s, e + 1, pm)
         IN  IF SubSeq(s, i + 1, e) # package_manager
             THEN [ err |-> "KeyError", cmd |-> << >> ]
             ELSE [ err |-> r.err, cmd |-> pm \o r.cmd ]
    ELSE IF i + 1 < Len(s) /\ s[i + 1] = "{" /\ IdStart(s[i + 2])
              /\ IdEnd(s, i + 2) < Len(s) /\ s[IdEnd(s, i + 2) + 1] = "}"
    THEN LET e == IdEnd(s, i + 2)
             r == SubstituteFrom(s, e + 2, pm)
         IN  IF SubSeq(s, i + 2, e) # package_manager
             THEN [ err |-> "KeyError", cmd |-> << >> ]
             ELSE [ err |-> r.err, cmd |-> pm \o r.cmd ]
    ELSE [ err |-> "ValueError", cmd |-> << >> ]

\* lines 162-164
Interpolate(doc, install_cmd) ==
    IF Contains(install_cmd, Placeholder)
    THEN LET r == SubstituteFrom(install_cmd, 1,
                                 GetOr(doc.strs, "package_manager", apt))
         IN  IF r.err = NoError THEN r
             ELSE [ err |-> r.err, cmd |-> EMPTY ]
    ELSE [ err |-> NoError, cmd |-> install_cmd ]

\* Variant: the dependencies are joined as they come, unsorted and with
\* their repetitions.
DepsStrUnsorted(dependencies) == Join(Flatten(dependencies), SPACE)

\* " ".join(sorted(set(all_deps)))
DepsStr(dependencies) == Join(SortedList(Range(Flatten(dependencies))), SPACE)

\* f"{install_cmd} {deps_str}" if deps_str else install_cmd
FullCommand(install_cmd, deps_str) ==
    IF deps_str # EMPTY THEN install_cmd \o SPACE \o deps_str ELSE install_cmd

CmdResult(err, cmd) == [ err |-> err, cmd |-> cmd ]

\* get_install_command(dependencies, command) on the document content;
\* dependencies is the sequence of the dict's values, each a list of tokens
GetInstallCommand(doc, dependencies, command) ==
    LET tpl == InstallCmd(doc, command)
        ren == Interpolate(doc, tpl.cmd)
    IN  IF tpl.err # NoError THEN CmdResult(tpl.err, EMPTY)
        ELSE IF ren.err # NoError THEN CmdResult(ren.err, EMPTY)
        ELSE CmdResult(NoError, FullCommand(ren.cmd, DepsStr(dependencies)))

\* ------------------------------------------------------------------------
\* The resolver instance, its callers and the document source
\* ------------------------------------------------------------------------

VARIABLES
    source,        \* self.source: "local" or "repo"
    served,        \* what the source holds for {distro}-{version}.toml
    content,       \* self._content: None or the cached document (its id)
    content_lock,  \* self._content_lock: 0 when free, else the holder
    loads,         \* physical loads attempted (the test's load counter)
    fails,         \* physical loads that raised
    calls,         \* API calls started
    resolved,      \* a call that went through _get_content has returned
    pc,            \* where each thread is
    call,          \* the API call each thread is in, with its arguments
    idx,           \* convert_list: position of pkg in pip_packages
    acc,           \* convert_list: all_flat and seen
    got,           \* the value _get_content returned to the thread
    out            \* the result of the thread's call, or its exception

vars == << source, served, content, content_lock, loads, fails, calls,
           resolved, pc, call, idx, acc, got, out >>

Threads == 1..NumThreads

\* No file at the local path, no reachable remote document.
Absent == 0
\* A file or a response that tomllib cannot parse.
Garbled == -1

\* threading.Lock(), not held
Unlocked == 0

NoCall == [ op |-> "none", pkgs |-> << >>, deps |-> << >>, command |-> "" ]
NoOut  == [ err |-> NoError, all |-> << >>, cmd |-> << >> ]
Out(err, all, cmd) == [ err |-> err, all |-> all, cmd |-> cmd ]

\* Variant: a missing or unreadable document is replaced by an empty one.
LoadOutcomeEmptyOnFailure(src, held) ==
    IF held \in DocIds THEN [ err |-> NoError, doc |-> held ]
    ELSE [ err |-> NoError, doc |-> Len(Docs) ]

\* _get_local_content / _get_repo_content: the document, or the exception.
\* The remote path wraps every exception in FileNotFoundError; the local
\* path raises it for a missing file and lets a parse error through.
LoadOutcome(src, held) ==
    IF held \in DocIds THEN [ err |-> NoError, doc |-> held ]
    ELSE IF src = "repo" THEN [ err |-> "FileNotFoundError", doc |-> None ]
    ELSE IF held = Absent THEN [ err |-> "FileNotFoundError", doc |-> None ]
    ELSE [ err |-> "TOMLDecodeError", doc |-> None ]

\* Variant: a failed load leaves an empty document in the cache.
ContentAfterFailureCachesEmpty(c) == Len(Docs)

\* self._content after `self._content = self._get_..._content()` raised:
\* the assignment never ran.
ContentAfterFailure(c) == c

\* Variant: the body of a call empties the tables of the cached dict.
ContentAfterBodyCleared(c) == Len(Docs)

\* The dict self._content refers to once the body of convert, convert_list
\* or get_install_command has run on it.  content names the document by
\* its value, so a store into the dict or into one of its lists would make
\* it another document; the bodies only read it (.get, [], iteration) and
\* build their results in fresh lists.
ContentAfterBody(c) == c

\* Variant: the cache is never consulted, every call loads.
CacheMissAlways(c) == TRUE

\* if self._content is None
CacheMiss(c) == c = None

\* Variant: no mutual exclusion, the with block never waits.
LockFreeAlways(t) == TRUE

\* with self._content_lock: the lock can be taken by t
LockFree(t) == content_lock = Unlocked

\* Variant: the lock is taken with acquire() and released on the normal
\* path only, so an exception leaves it with its holder.
LockAfterRaiseHeld(t) == t

\* The lock once an exception has left the with block that t entered:
\* __exit__ releases it.
LockAfterRaise(t) == Unlocked

\* The arguments callers pass in Spec.
ThreadPkgs == { "pkg" }
ThreadLists == { << >>, << "pkg", "otherpkg" >> }
ThreadDeps == { << << foo, bar >> >> }
ThreadCommands == { "install" }
\* What the source may hold in Spec.
ThreadServed == { Absent, Garbled, 1, 4 }

Init ==
    /\ source \in { "local", "repo" }
    /\ served \in ThreadServed
    /\ content = None
    /\ content_lock = Unlocked
    /\ loads = 0
    /\ fails = 0
    /\ calls = 0
    /\ resolved = FALSE
    /\ pc = [ t \in Threads |-> "idle" ]
    /\ call = [ t \in Threads |-> NoCall ]
    /\ idx = [ t \in Threads |-> 0 ]
    /\ acc = [ t \in Threads |-> EmptyAcc ]
    /\ got = [ t \in Threads |-> None ]
    /\ out = [ t \in Threads |-> NoOut ]

\* A thread enters convert(p): its first statement is self._get_content().
CallConvert(t, p) ==
    /\ pc[t] = "idle"
    /\ out[t] = NoOut
    /\ calls' = calls + 1
    /\ call' = [ call EXCEPT ![t] = [ op |-> "convert", pkgs |-> << p >>,
                                      deps |-> << >>, command |-> "" ] ]
    /\ idx' = [ idx EXCEPT ![t] = 1 ]
    /\ pc' = [ pc EXCEPT ![t] = "acquire" ]
    /\ UNCHANGED << source, served, content, content_lock, loads, fails,
                    resolved, acc, got, out >>

\* A thread enters convert_list(ps): with no package the loop body never
\* runs and {'all': []} is returned; otherwise the first convert(pkg)
\* starts.
CallConvertList(t, ps) ==
    /\ pc[t] = "idle"
    /\ out[t] = NoOut
    /\ calls' = calls + 1
    /\ call' = [ call EXCEPT ![t] = [ op |-> "convert_list", pkgs |-> ps,
                                      deps |-> << >>, command |-> "" ] ]
    /\ acc' = [ acc EXCEPT ![t] = EmptyAcc ]
    /\ IF ps = << >>
       THEN /\ pc' = [ pc EXCEPT ![t] = "done" ]
            /\ out' = [ out EXCEPT ![t] = Out(NoError, << >>, << >>) ]
            /\ idx' = idx
       ELSE /\ pc' = [ pc EXCEPT ![t] = "acquire" ]
            /\ idx' = [ idx EXCEPT ![t] = 1 ]
            /\ out' = out
    /\ UNCHANGED << source, served, content, content_lock, loads, fails,
                    resolved, got >>

\* A thread enters get_install_command(dependencies, command).
CallGetInstallCommand(t, d, c) ==
    /\ pc[t] = "idle"
    /\ out[t] = NoOut
    /\ calls' = calls + 1
    /\ call' = [ call EXCEPT ![t] = [ op |-> "get_install_command",
                                      pkgs |-> << >>, deps |-> d,
                                      command |-> c ] ]
    /\ pc' = [ pc EXCEPT ![t] = "acquire" ]
    /\ UNCHANGED << source, served, content, content_lock, loads, fails,
                    resolved, idx, acc, got, out >>

\* _get_content: with self._content_lock (blocks while another holds it)
Acquire(t) ==
    /\ pc[t] = "acquire"
    /\ LockFree(t)
    /\ content_lock' = t
    /\ pc' = [ pc EXCEPT ![t] = "locked" ]
    /\ UNCHANGED << source, served, content, loads, fails, calls, resolved,
                    call, idx, acc, got, out >>

\* _get_content: if self._content is None
Check(t) ==
    /\ pc[t] = "locked"
    /\ pc' = [ pc EXCEPT ![t] = IF CacheMiss(content) THEN "load"
                                 ELSE "release" ]
    /\ UNCHANGED << source, served, content, content_lock, loads, fails,
                    calls, resolved, call, idx, acc, got, out >>

\* _get_content: self._content = self._get_local_content() (or repo).  An
\* exception leaves the with block, which releases the lock, and ends the
\* caller's call.
Load(t) ==
    /\ pc[t] = "load"
    /\ loads' = loads + 1
    /\ LET o == LoadOutcome(source, served)
       IN  IF o.err = NoError
           THEN /\ content' = o.doc
                /\ pc' = [ pc EXCEPT ![t] = "release" ]
                /\ UNCHANGED << fails, content_lock, out >>
           ELSE /\ content' = ContentAfterFailure(content)
                /\ fails' = fails + 1
                /\ content_lock' = LockAfterRaise(t)
                /\ pc' = [ pc EXCEPT ![t] = "done" ]
                /\ out' = [ out EXCEPT ![t] = Out(o.err, << >>, << >>) ]
    /\ UNCHANGED << source, served, calls, resolved, call, idx, acc, got >>

\* _get_content: the with block ends
Release(t) ==
    /\ pc[t] = "release"
    /\ content_lock' = Unlocked
    /\ pc' = [ pc EXCEPT ![t] = "return" ]
    /\ UNCHANGED << source, served, content, loads, fails, calls, resolved,
                    call, idx, acc, got, out >>

\* What the caller does with the returned content c, up to its next
\* _get_content or its end: [pc, idx, acc, out].
AfterContent(c, t) ==
    IF c = None
    THEN [ pc |-> "done", idx |-> idx[t], acc |-> acc[t],
           out |-> Out("AttributeError", << >>, << >>) ]
    ELSE IF call[t].op = "convert"
    THEN LET r == Convert(Docs[c], call[t].pkgs[1])
         IN  [ pc |-> "done", idx |-> idx[t], acc |-> acc[t],
               out |-> Out(r.err, r.all, << >>) ]
    ELSE IF call[t].op = "convert_list"
    THEN LET r == Convert(Docs[c], call[t].pkgs[idx[t]])
             a == MergeDeps(acc[t], r.all)
         IN  IF r.err # NoError
             THEN [ pc |-> "done", idx |-> idx[t], acc |-> acc[t],
                    out |-> Out(r.err, << >>, << >>) ]
             ELSE IF idx[t] < Len(call[t].pkgs)
             THEN [ pc |-> "acquire", idx |-> idx[t] + 1, acc |-> a,
                    out |-> out[t] ]
             ELSE [ pc |-> "done", idx |-> idx[t], acc |-> a,
                    out |-> Out(NoError, a.all_flat, << >>) ]
    ELSE LET r == GetInstallCommand(Docs[c], call[t].deps, call[t].command)
         IN  [ pc |-> "done", idx |-> idx[t], acc |-> acc[t],
               out |-> Out(r.err, << >>, r.cmd) ]

\* _get_content: return self._content, and the caller's code that follows
Return(t) ==
    /\ pc[t] = "return"
    /\ got' = [ got EXCEPT ![t] = content ]
    /\ LET n == AfterContent(content, t)
       IN  /\ pc' = [ pc EXCEPT ![t] = n.pc ]
           /\ idx' = [ idx EXCEPT ![t] = n.idx ]
           /\ acc' = [ acc EXCEPT ![t] = n.acc ]
           /\ out' = [ out EXCEPT ![t] = n.out ]
           /\ resolved' = (resolved \/ n.pc = "done")
    /\ content' = ContentAfterBody(content)
    /\ UNCHANGED << source, served, content_lock, loads, fails, calls, call >>

\* The caller has its result (or exception); the thread is free again.
Finish(t) ==
    /\ pc[t] = "done"
    /\ pc' = [ pc EXCEPT ![t] = "idle" ]
    /\ call' = [ call EXCEPT ![t] = NoCall ]
    /\ idx' = [ idx EXCEPT ![t] = 0 ]
    /\ acc' = [ acc EXCEPT ![t] = EmptyAcc ]
    /\ got' = [ got EXCEPT ![t] = None ]
    /\ out' = [ out EXCEPT ![t] = NoOut ]
    /\ UNCHANGED << source, served, content, content_lock, loads, fails,
                    calls, resolved >>

\* The environment: the mapping file is written, replaced or removed, the
\* remote comes and goes.
Publish(d) ==
    /\ d # served
    /\ served' = d
    /\ UNCHANGED << source, content, content_lock, loads, fails, calls,
                    resolved, pc, call, idx, acc, got, out >>

Next ==
    \/ \E t \in Threads, p \in ThreadPkgs : CallConvert(t, p)
    \/ \E t \in Threads, ps \in ThreadLists : CallConvertList(t, ps)
    \/ \E t \in Threads, d \in ThreadDeps, c \in ThreadCommands :
           CallGetInstallCommand(t, d, c)
    \/ \E t \in Threads : Acquire(t)
    \/ \E t \in Threads : Check(t)
    \/ \E t \in Threads : Load(t)
    \/ \E t \in Threads : Release(t)
    \/ \E t \in Threads : Return(t)
    \/ \E d \in ThreadServed : Publish(d)

Spec == Init /\ [][Next]_vars

\* ------------------------------------------------------------------------
\* The callers under fair scheduling
\* ------------------------------------------------------------------------

\* What the local source may hold in SpecFair.
FairServed == { Absent, 1 }

InitFair ==
    /\ Init
    /\ source = "local"
    /\ served \in FairServed

\* A thread enters _get_content.
CallGetContent(t) ==
    /\ pc[t] = "idle"
    /\ calls < MaxCalls
    /\ calls' = calls + 1
    /\ call' = [ call EXCEPT ![t] = [ op |-> "_get_content", pkgs |-> << >>,
                                      deps |-> << >>, command |-> "" ] ]
    /\ pc' = [ pc EXCEPT ![t] = "acquire" ]
    /\ UNCHANGED << source, served, content, content_lock, loads, fails,
                    resolved, idx, acc, got, out >>

\* _get_content: return self._content
ReturnContent(t) ==
    /\ pc[t] = "return"
    /\ got' = [ got EXCEPT ![t] = content ]
    /\ pc' = [ pc EXCEPT ![t] = "done" ]
    /\ out' = [ out EXCEPT ![t] = Out(NoError, << >>, << >>) ]
    /\ resolved' = TRUE
    /\ UNCHANGED << source, served, content, content_lock, loads, fails,
                    calls, call, idx, acc >>

NextFair ==
    \/ \E t \in Threads : CallGetContent(t)
    \/ \E t \in Threads : Acquire(t)
    \/ \E t \in Threads : Check(t)
    \/ \E t \in Threads : Load(t)
    \/ \E t \in Threads : Release(t)
    \/ \E t \in Threads : ReturnContent(t)
    \/ \E t \in Threads : Finish(t)
    \/ \E d \in FairServed : Publish(d)

\* The next step of thread t inside _get_content.
Step(t) ==
    \/ Acquire(t)
    \/ Check(t)
    \/ Load(t)
    \/ Release(t)
    \/ ReturnContent(t)

\* Every thread that can take its next step inside _get_content takes it;
\* a load attempt ends.  Entering a call, leaving its result and a change
\* of the source are under no obligation.
Fairness == \A t \in Threads : WF_vars(Step(t))

SpecFair == InitFair /\ [][NextFair]_vars /\ Fairness

\* ------------------------------------------------------------------------
\* One caller, whole calls: the API as a sequential program
\* ------------------------------------------------------------------------

\* The single caller of SpecSeq.
Caller == CHOOSE t \in Threads : \A u \in Threads : t <= u

\* _get_content run without interruption on cache c: what it returns (or
\* raises), the cache it leaves, and the loads it made.
GetContent(c, src, held) ==
    IF ~CacheMiss(c)
    THEN [ err |-> NoError, content |-> c, loads |-> 0, fails |-> 0 ]
    ELSE LET o == LoadOutcome(src, held)
         IN  IF o.err = NoError
             THEN [ err |-> NoError, content |-> o.doc, loads |-> 1,
                    fails |-> 0 ]
             ELSE [ err |-> o.err, content |-> ContentAfterFailure(c),
                    loads |-> 1, fails |-> 1 ]

RECURSIVE ConvertListRun(_, _, _, _, _)
\* The loop of convert_list over pip_packages, every convert(pkg) going
\* through _get_content: st is [content, loads, fails], a the accumulator.
ConvertListRun(st, src, held, pip_packages, a) ==
    IF pip_packages = << >>
    THEN [ content |-> st.content, loads |-> st.loads, fails |-> st.fails,
           out |-> Out(NoError, a.all_flat, << >>) ]
    ELSE LET g == GetContent(st.content, src, held)
             n == [ content |-> IF g.err = NoError
                                THEN ContentAfterBody(g.content)
                                ELSE g.content,
                    loads |-> st.loads + g.loads,
                    fails |-> st.fails + g.fails ]
             r == Convert(Docs[g.content], Head(pip_packages))
         IN  IF g.err # NoError
             THEN [ content |-> n.content, loads |-> n.loads,
                    fails |-> n.fails, out |-> Out(g.err, << >>, << >>) ]
             ELSE IF r.err # NoError
             THEN [ content |-> n.content, loads |-> n.loads,
                    fails |-> n.fails, out |-> Out(r.err, << >>, << >>) ]
             ELSE ConvertListRun(n, src, held, Tail(pip_packages),
                                 MergeDeps(a, r.all))

\* Sequences over S of length at most n.
SeqsUpTo(S, n) == UNION { [ 1..k -> S ] : k \in 0..n }

\* The arguments the caller passes in SpecSeq.
SeqLists == SeqsUpTo(PkgNames, MaxListLen)
SeqDeps ==
    { << >>, << << >> >>, << << EMPTY >> >>, << << foo, bar >> >>,
      << << bar, foo, bar >> >>, << << foo >>, << bar, foo >> >>,
      << << libx, EMPTY >>, << bar >> >> }
SeqCommands == { "install", "update", "remove" }
\* What the source may hold in SpecSeq.
SeqServed == { Absent, Garbled } \cup DocIds

InitSeq ==
    /\ source \in { "local", "repo" }
    /\ served \in SeqServed
    /\ content = None
    /\ content_lock = Unlocked
    /\ loads = 0
    /\ fails = 0
    /\ calls = 0
    /\ resolved = FALSE
    /\ pc = [ t \in Threads |-> "idle" ]
    /\ call = [ t \in Threads |-> NoCall ]
    /\ idx = [ t \in Threads |-> 0 ]
    /\ acc = [ t \in Threads |-> EmptyAcc ]
    /\ got = [ t \in Threads |-> None ]
    /\ out = [ t \in Threads |-> NoOut ]

\* convert(p), from call to return or exception
SeqConvert(p) ==
    /\ pc[Caller] = "idle"
    /\ calls < MaxCalls
    /\ calls' = calls + 1
    /\ call' = [ call EXCEPT ![Caller] = [ op |-> "convert", pkgs |-> << p >>,
                                           deps |-> << >>, command |-> "" ] ]
    /\ LET g == GetContent(content, source, served)
           r == Convert(Docs[g.content], p)
       IN  /\ content' = IF g.err = NoError THEN ContentAfterBody(g.content)
                       ELSE g.content
           /\ loads' = loads + g.loads
           /\ fails' = fails + g.fails
           /\ got' = [ got EXCEPT ![Caller] = g.content ]
           /\ resolved' = (resolved \/ g.err = NoError)
           /\ out' = [ out EXCEPT ![Caller] =
                         IF g.err # NoError THEN Out(g.err, << >>, << >>)
                         ELSE Out(r.err, r.all, << >>) ]
    /\ pc' = [ pc EXCEPT ![Caller] = "done" ]
    /\ UNCHANGED << source, served, content_lock, idx, acc >>

\* convert_list(ps), from call to return or exception
SeqConvertList(ps) ==
    /\ pc[Caller] = "idle"
    /\ calls < MaxCalls
    /\ calls' = calls + 1
    /\ call' = [ call EXCEPT ![Caller] = [ op |-> "convert_list", pkgs |-> ps,
                                           deps |-> << >>, command |-> "" ] ]
    /\ LET r == ConvertListRun([ content |-> content, loads |-> loads,
                                 fails |-> fails ],
                               source, served, ps, EmptyAcc)
       IN  /\ content' = r.content
           /\ loads' = r.loads
           /\ fails' = r.fails
           /\ got' = [ got EXCEPT ![Caller] =
                         IF ps = << >> THEN None ELSE r.content ]
           /\ resolved' = (resolved \/ (ps # << >> /\ r.content # None))
           /\ out' = [ out EXCEPT ![Caller] = r.out ]
    /\ pc' = [ pc EXCEPT ![Caller] = "done" ]
    /\ UNCHANGED << source, served, content_lock, idx, acc >>

\* get_install_command(d, c), from call to return or exception
SeqGetInstallCommand(d, c) ==
    /\ pc[Caller] = "idle"
    /\ calls < MaxCalls
    /\ calls' = calls + 1
    /\ call' = [ call EXCEPT ![Caller] = [ op |-> "get_install_command",
                                           pkgs |-> << >>, deps |-> d,
                                           command |-> c ] ]
    /\ LET g == GetContent(content, source, served)
           r == GetInstallCommand(Docs[g.content], d, c)
       IN  /\ content' = IF g.err = NoError THEN ContentAfterBody(g.content)
                       ELSE g.content
           /\ loads' = loads + g.loads
           /\ fails' = fails + g.fails
           /\ got' = [ got EXCEPT ![Caller] = g.content ]
           /\ resolved' = (resolved \/ g.err = NoError)
           /\ out' = [ out EXCEPT ![Caller] =
                         IF g.err # NoError THEN Out(g.err, << >>, << >>)
                         ELSE Out(r.err, << >>, r.cmd) ]
    /\ pc' = [ pc EXCEPT ![Caller] = "done" ]
    /\ UNCHANGED << source, served, content_lock, idx, acc >>

\* The mapping file or the remote changes between two calls.
SeqPublish(d) ==
    /\ pc[Caller] = "idle"
    /\ Publish(d)

NextSeq ==
    \/ \E p \in PkgNames : SeqConvert(p)
    \/ \E ps \in SeqLists : SeqConvertList(ps)
    \/ \E d \in SeqDeps, c \in SeqCommands : SeqGetInstallCommand(d, c)
    \/ Finish(Caller)
    \/ \E d \in SeqServed : SeqPublish(d)

SpecSeq == InitSeq /\ [][NextSeq]_vars

\* ------------------------------------------------------------------------
\* _expand_deps on its own: the resolver holds a document, the caller
\* passes a token list
\* ------------------------------------------------------------------------

\* The tokens of the lists passed to _expand_deps.
ExpandTokens ==
    { foo, bar, dev, extras, EMPTY, g_dev, g_build, g_missing, g_loop, g_root,
      g_meta }

ExpandItems == SeqsUpTo(ExpandTokens, MaxListLen)

\* The list result of _expand_deps, or the exception that leaves it.
ExpandOut(r) ==
    IF r.ok THEN Out(NoError, r.out, << >>)
    ELSE Out("RecursionError", << >>, << >>)

\* self._expand_deps({'__meta__': meta}, items), the call shape of convert
ExpandTop(doc, items) == ExpandDeps(MetaOnlyMapping(doc), items, 1)

\* A resolver that has loaded its document, and the list a caller is about
\* to pass to _expand_deps.
InitExpand ==
    /\ source = "local"
    /\ served \in DocIds
    /\ content = served
    /\ content_lock = Unlocked
    /\ loads = 1
    /\ fails = 0
    /\ calls = 0
    /\ resolved = FALSE
    /\ pc = [ t \in Threads |-> "idle" ]
    /\ \E items \in ExpandItems :
           call = [ t \in Threads |->
                      IF t = Caller
                      THEN [ op |-> "_expand_deps", pkgs |-> << >>,
                             deps |-> << items >>, command |-> "" ]
                      ELSE NoCall ]
    /\ idx = [ t \in Threads |-> 0 ]
    /\ acc = [ t \in Threads |-> EmptyAcc ]
    /\ got = [ t \in Threads |-> None ]
    /\ out = [ t \in Threads |-> NoOut ]

\* _expand_deps({'__meta__': meta}, items) is called and returns.
ExpandCall ==
    /\ pc[Caller] = "idle"
    /\ calls' = calls + 1
    /\ got' = [ got EXCEPT ![Caller] = content ]
    /\ out' = [ out EXCEPT ![Caller] =
                  ExpandOut(ExpandTop(Docs[content], call[Caller].deps[1])) ]
    /\ pc' = [ pc EXCEPT ![Caller] = "done" ]
    /\ UNCHANGED << source, served, content, content_lock, loads, fails,
                    resolved, call, idx, acc >>

\* The list it returned is passed to _expand_deps once more.
ExpandAgain ==
    /\ pc[Caller] = "done"
    /\ out[Caller].err = NoError
    /\ calls' = calls + 1
    /\ out' = [ out EXCEPT ![Caller] =
                  ExpandOut(ExpandTop(Docs[content], out[Caller].all)) ]
    /\ pc' = [ pc EXCEPT ![Caller] = "again" ]
    /\ UNCHANGED << source, served, content, content_lock, loads, fails,
                    resolved, call, idx, acc, got >>

\* The same list is passed to the _expand_deps of src/src/pip2sysdep.py.
ExpandLegacy ==
    /\ pc[Caller] = "idle"
    /\ calls' = calls + 1
    /\ got' = [ got EXCEPT ![Caller] = content ]
    /\ out' = [ out EXCEPT ![Caller] =
                  ExpandOut(LegacyExpandDeps(Docs[content].groups,
                                             call[Caller].deps[1], 1)) ]
    /\ pc' = [ pc EXCEPT ![Caller] = "legacy" ]
    /\ UNCHANGED << source, served, content, content_lock, loads, fails,
                    resolved, call, idx, acc >>

NextExpand ==
    \/ ExpandCall
    \/ ExpandAgain
    \/ ExpandLegacy

SpecExpand == InitExpand /\ [][NextExpand]_vars

\* ------------------------------------------------------------------------
\* The command line: main() of src/src/pip2sysdep/__main__.py
\* ------------------------------------------------------------------------

\* The pieces command lines are built from: flags, a flag with its file
\* ("deps" lists the package pkg for either parser, "empty" lists none), a
\* flag that lacks its file, and a package name.
ArgGroups ==
    { << "--help" >>, << "--install" >>, << "--show-input" >>,
      << "--local" >>, << "--separator=space" >>, << "--separator=tab" >>,
      << "--txt", "deps" >>, << "--txt", "empty" >>, << "--toml", "deps" >>,
      << "--toml" >>, << "pkg" >> }

\* sys.argv[1:]
CliArgvs == { Flatten(gs) : gs \in SeqsUpTo(ArgGroups, MaxArgs) }

\* arg.startswith('--separator=')
IsSeparatorArg(arg) == arg \in { "--separator=space", "--separator=tab" }

\* arg.split('=', 1)[1].strip().lower()
SeparatorVal(arg) == IF arg = "--separator=space" THEN "space" ELSE "tab"

\* main has not exited.
Running == -1

\* The locals of main before the loop (lines 79-87); None is written "".
CliLocals(args) ==
    [ op |-> "main", args |-> args, pkgs |-> << >>, deps |-> << >>,
      command |-> "install", use_local |-> FALSE, separator |-> "\n",
      do_install |-> FALSE, show_input |-> FALSE, txt_file |-> "",
      toml_file |-> "", new_args |-> << >>, exit |-> Running ]

\* Variant: an unknown separator is ignored and the default kept.
UnknownSeparatorIgnored(st) == st

\* lines 107-108: Unknown separator, sys.exit(1)
UnknownSeparator(st) == [ st EXCEPT !.exit = 1 ]

RECURSIVE ParseArgs(_, _)
\* The while loop of lines 89-117 from args[i] on (i counts from 1); no
\* word of the command lines above starts with '--local='.
ParseArgs(st, i) ==
    IF i > Len(st.args) \/ st.exit # Running THEN st
    ELSE LET arg == st.args[i]
         IN  IF arg = "--local"
             THEN ParseArgs([ st EXCEPT !.use_local = TRUE ], i + 1)
             ELSE IF arg = "--install"
             THEN ParseArgs([ st EXCEPT !.do_install = TRUE ], i + 1)
             ELSE IF arg = "--show-input"
             THEN ParseArgs([ st EXCEPT !.show_input = TRUE ], i + 1)
             ELSE IF IsSeparatorArg(arg)
             THEN IF SeparatorVal(arg) = "space"
                  THEN ParseArgs([ st EXCEPT !.separator = " " ], i + 1)
                  ELSE IF SeparatorVal(arg) = "newline"
                  THEN ParseArgs([ st EXCEPT !.separator = "\n" ], i + 1)
                  ELSE ParseArgs(UnknownSeparator(st), i + 1)
             ELSE IF arg = "--txt" /\ i + 1 <= Len(st.args)
             THEN ParseArgs([ st EXCEPT !.txt_file = st.args[i + 1] ], i + 2)
             ELSE IF arg = "--toml" /\ i + 1 <= Len(st.args)
             THEN ParseArgs([ st EXCEPT !.toml_file = st.args[i + 1] ], i + 2)
             ELSE ParseArgs([ st EXCEPT !.new_args = Append(@, arg) ], i + 1)

\* parse_requirements_file / parse_pyproject_toml on the files of the
\* working directory: the package names read, or the exception of open().
ReadPkgs(filename) ==
    IF filename = "deps" THEN [ err |-> NoError, pkgs |-> << "pkg" >> ]
    ELSE IF filename = "empty" THEN [ err |-> NoError, pkgs |-> << >> ]
    ELSE [ err |-> "FileNotFoundError", pkgs |-> << >> ]

\* How main has ended: the exception that left it (if any), the packages
\* printed, the command passed to subprocess.run, the exit code, and
\* whether subprocess.run was called.
CliOut(err, all, cmd, code, ran) ==
    [ err |-> err, all |-> all, cmd |-> cmd, code |-> code, ran |-> ran ]

\* The exit codes of the install command.
ReturnCodes == { 0, 1, 100 }

\* What the remote or the local mapping file holds while main runs.
CliServed == { Absent, 4 }

\* The process has started with its command line; no resolver exists yet.
InitCli ==
    /\ source = "repo"
    /\ served \in CliServed
    /\ content = None
    /\ content_lock = Unlocked
    /\ loads = 0
    /\ fails = 0
    /\ calls = 0
    /\ resolved = FALSE
    /\ pc = [ t \in Threads |-> "idle" ]
    /\ \E args \in CliArgvs :
           call = [ t \in Threads |->
                      IF t = Caller THEN CliLocals(args) ELSE NoCall ]
    /\ idx = [ t \in Threads |-> 0 ]
    /\ acc = [ t \in Threads |-> EmptyAcc ]
    /\ got = [ t \in Threads |-> None ]
    /\ out = [ t \in Threads |->
                 IF t = Caller
                 THEN CliOut(NoError, << >>, << >>, Running, FALSE)
                 ELSE NoOut ]

\* main leaves with sys.exit(code) or with an exception, which the
\* interpreter turns into exit code 1.
CliExit(err, all, cmd, code, ran) ==
    /\ pc' = [ pc EXCEPT ![Caller] = "done" ]
    /\ out' = [ out EXCEPT ![Caller] = CliOut(err, all, cmd, code, ran) ]

\* lines 75-117: --help, then the flags
CliParse ==
    /\ pc[Caller] = "idle"
    /\ call[Caller].op = "main"
    /\ LET st == ParseArgs(call[Caller], 1)
       IN  IF "--help" \in Range(call[Caller].args)
           THEN /\ CliExit(NoError, << >>, << >>, 0, FALSE)
                /\ call' = call
           ELSE IF st.exit # Running
           THEN /\ CliExit(NoError, << >>, << >>, st.exit, FALSE)
                /\ call' = [ call EXCEPT ![Caller] = st ]
           ELSE /\ pc' = [ pc EXCEPT ![Caller] = "parsed" ]
                /\ call' = [ call EXCEPT ![Caller] = st ]
                /\ out' = out
    /\ UNCHANGED << source, served, content, content_lock, loads, fails,
                    calls, resolved, idx, acc, got >>

\* lines 118-136: the package names of the files and of the command line
CliCollect ==
    /\ pc[Caller] = "parsed"
    /\ LET st   == call[Caller]
           txt  == IF st.txt_file # "" THEN ReadPkgs(st.txt_file)
                   ELSE [ err |-> NoError, pkgs |-> << >> ]
           toml == IF st.toml_file # "" THEN ReadPkgs(st.toml_file)
                   ELSE [ err |-> NoError, pkgs |-> << >> ]
           pkgs == txt.pkgs \o toml.pkgs \o st.new_args
       IN  IF st.txt_file # "" /\ st.toml_file # ""
           THEN CliExit(NoError, << >>, << >>, 1, FALSE) /\ call' = call
           ELSE IF txt.err # NoError
           THEN CliExit(txt.err, << >>, << >>, 1, FALSE) /\ call' = call
           ELSE IF toml.err # NoError
           THEN CliExit(toml.err, << >>, << >>, 1, FALSE) /\ call' = call
           ELSE IF pkgs = << >>
           THEN CliExit(NoError, << >>, << >>, 1, FALSE) /\ call' = call
           ELSE IF st.show_input
           THEN /\ CliExit(NoError, Dedup(pkgs), << >>, 0, FALSE)
                /\ call' = [ call EXCEPT ![Caller].pkgs = Dedup(pkgs) ]
           ELSE /\ pc' = [ pc EXCEPT ![Caller] = "collected" ]
                /\ call' = [ call EXCEPT ![Caller].pkgs = Dedup(pkgs) ]
                /\ out' = out
    /\ UNCHANGED << source, served, content, content_lock, loads, fails,
                    calls, resolved, idx, acc, got >>

\* lines 137-146: converter = Pip2SysDep(source=source) and
\* converter.convert_list(pkgs)
CliResolve ==
    /\ pc[Caller] = "collected"
    /\ source' = IF call[Caller].use_local THEN "local" ELSE "repo"
    /\ calls' = calls + 1
    /\ LET r == ConvertListRun([ content |-> None, loads |-> loads,
                                 fails |-> fails ],
                               source', served, call[Caller].pkgs, EmptyAcc)
       IN  /\ content' = r.content
           /\ loads' = r.loads
           /\ fails' = r.fails
           /\ got' = [ got EXCEPT ![Caller] = r.content ]
           /\ resolved' = (r.content # None)
           /\ IF r.out.err # NoError
              THEN CliExit(r.out.err, << >>, << >>, 1, FALSE)
              ELSE /\ pc' = [ pc EXCEPT ![Caller] = "resolved" ]
                   /\ out' = [ out EXCEPT ![Caller].all = r.out.all ]
    /\ UNCHANGED << served, content_lock, call, idx, acc >>

\* lines 147-158: the install command is run and its return code is the
\* exit code (1 when subprocess.run raised), or the packages are printed
CliEmit(rc) ==
    /\ pc[Caller] = "resolved"
    /\ IF call[Caller].do_install
       THEN LET r == GetInstallCommand(Docs[ContentAfterBody(content)],
                                       << out[Caller].all >>, "install")
            IN  /\ calls' = calls + 1
                /\ IF r.err # NoError
                   THEN CliExit(r.err, out[Caller].all, << >>, 1, FALSE)
                   ELSE CliExit(NoError, out[Caller].all, r.cmd, rc, TRUE)
       ELSE /\ rc = 0
            /\ calls' = calls
            /\ CliExit(NoError, out[Caller].all, << >>, 0, FALSE)
    /\ content' = ContentAfterBody(content)
    /\ UNCHANGED << source, served, content_lock, loads, fails, resolved,
                    call, idx, acc, got >>

NextCli ==
    \/ CliParse
    \/ CliCollect
    \/ CliResolve
    \/ \E rc \in ReturnCodes : CliEmit(rc)

SpecCli == InitCli /\ [][NextCli]_vars

\* ------------------------------------------------------------------------
\* Properties
\* ------------------------------------------------------------------------

\* The threads whose call has ended (returned or raised).
Completed == { t \in Threads : pc[t] = "done" }

\* The call of t goes through _get_content at least once.
ReachesContent(t) ==
    call[t].op \in { "convert", "get_install_command" }
        \/ (call[t].op = "convert_list" /\ call[t].pkgs # << >>)

\* The exceptions a load raises.
LoadErrors == { "FileNotFoundError", "TOMLDecodeError" }

\* C1 as claimed: while every load returns a document, the load counter
\* never exceeds 1 and is exactly 1 once any call has completed.
C1_CacheOnceAnyCall ==
    (fails = 0 /\ served \in DocIds) =>
        /\ loads <= 1
        /\ (Completed # {} => loads = 1)

\* C1: while every load returns a document, the load counter never
\* exceeds 1, and it is exactly 1 once a call that goes through
\* _get_content (convert, get_install_command, convert_list of at least one
\* package) has completed; convert_list([]) completes without a load.
C1_CacheOnce ==
    fails = 0 =>
        /\ loads <= 1
        /\ (resolved => loads = 1)
        /\ \A t \in Completed : ReachesContent(t) => loads = 1
        /\ \A t \in Completed :
               (call[t].op = "convert_list" /\ call[t].pkgs = << >>)
                   => out[t] = Out(NoError, << >>, << >>)

\* C1 witness: every thread has completed a call through _get_content,
\* and one load served them all.
C1_Witness ==
    /\ fails = 0
    /\ loads = 1
    /\ \A t \in Threads : pc[t] = "done" /\ ReachesContent(t)
    /\ \E t \in Threads : call[t].op = "convert_list"

\* C2: all convert(p) calls that returned got the one cached document
\* from _get_content and hold the same result, the one a single
\* sequential convert(p) on that document computes.
C2_Agreement ==
    \A t \in Completed, u \in Completed :
        ( /\ call[t].op = "convert" /\ call[u].op = "convert"
          /\ call[t].pkgs = call[u].pkgs
          /\ out[t].err \notin LoadErrors /\ out[u].err \notin LoadErrors )
        => /\ got[t] = content
           /\ got[u] = got[t]
           /\ out[t] = out[u]
           /\ out[t].all = Convert(Docs[content], call[t].pkgs[1]).all

\* C2 witness: two threads have returned from convert of the same package
\* with a result, after a single load.
C2_Witness ==
    \E t \in Completed, u \in Completed :
        /\ t # u
        /\ call[t].op = "convert" /\ call[u].op = "convert"
        /\ call[t].pkgs = call[u].pkgs
        /\ out[t].err = NoError /\ out[u].err = NoError
        /\ out[t].all # << >>
        /\ loads = 1

\* A call of the single caller has just ended.
Ends == pc[Caller] = "idle" /\ pc'[Caller] = "done"

\* C3 as claimed: construction loads nothing, and with no matching
\* document the first convert(p) or convert_list(ps), for any list ps,
\* raises FileNotFoundError.
C3_NotFoundAnyList ==
    /\ (loads = 0 /\ content = None)
    /\ [][ ( /\ Ends
             /\ content = None /\ served = Absent
             /\ call'[Caller].op \in { "convert", "convert_list" } )
           => out'[Caller].err = "FileNotFoundError" ]_vars

\* C3: construction loads nothing and raises nothing; with no matching
\* document, convert(p) and convert_list(ps) of a non-empty list raise
\* FileNotFoundError on a resolver that has no document yet, and leave it
\* without one; convert_list([]) returns {'all': []} without a load.
C3_NotFound ==
    /\ (loads = 0 /\ content = None /\ \A t \in Threads : out[t] = NoOut)
    /\ [][ ( /\ Ends
             /\ content = None /\ served = Absent
             /\ call'[Caller].op \in { "convert", "convert_list" } )
           => IF call'[Caller].pkgs # << >>
              THEN /\ out'[Caller].err = "FileNotFoundError"
                   /\ content' = None
                   /\ loads' = loads + 1
              ELSE /\ out'[Caller] = Out(NoError, << >>, << >>)
                   /\ loads' = loads ]_vars

\* C3 witness: the first call, a convert_list of two packages on a
\* resolver without document, has raised FileNotFoundError.
C3_Witness ==
    /\ pc[Caller] = "done"
    /\ calls = 1
    /\ served = Absent
    /\ call[Caller].op = "convert_list"
    /\ Len(call[Caller].pkgs) = 2
    /\ out[Caller].err = "FileNotFoundError"
    /\ content = None

\* C4: a load that fails leaves the cache unset and ends the call with the
\* exception, FileNotFoundError when the local file is absent or the
\* source is remote; a call that finds the cache unset loads again; the
\* cache is unset or holds a document that a load returned.
C4_FailedLoadNotCached ==
    [][ /\ (fails' > fails) =>
               /\ content = None /\ content' = None
               /\ \E t \in Threads :
                      /\ pc[t] = "load" /\ pc'[t] = "done"
                      /\ out'[t].err \in LoadErrors
                      /\ (source = "repo" \/ served = Absent)
                             => out'[t].err = "FileNotFoundError"
        /\ \A t \in Threads :
               (pc[t] = "locked" /\ pc'[t] # "locked" /\ content = None)
                   => pc'[t] = "load"
        /\ (content' # None) => (content' \in DocIds /\ loads' > fails')
        /\ (content # None) => content' = content ]_vars

\* C4 witness: after a failed load a later call loaded the document.
C4_Witness ==
    /\ fails >= 1
    /\ loads > fails
    /\ content \in DocIds
    /\ \E t \in Completed : out[t].err = "FileNotFoundError"
    /\ \E t \in Completed : out[t].err = NoError /\ got[t] = content

\* s has no repeated element.
NoDup(s) == \A i, j \in 1..Len(s) : i # j => s[i] # s[j]

\* The position of the first x in s.
FirstIndex(s, x) ==
    CHOOSE i \in 1..Len(s) : s[i] = x /\ \A j \in 1..(i - 1) : s[j] # x

\* r is s with every repetition removed, each element at the rank of its
\* first occurrence in s.
IsFirstOccurrenceDedup(r, s) ==
    /\ NoDup(r)
    /\ Range(r) = Range(s)
    /\ \A i, j \in 1..Len(r) :
           i < j => FirstIndex(s, r[i]) < FirstIndex(s, r[j])

\* The caller's call has ended after _get_content returned a document.
Answered(op) ==
    /\ pc[Caller] = "done"
    /\ call[Caller].op = op
    /\ got[Caller] \in DocIds
    /\ out[Caller].err \notin LoadErrors

\* C5: convert(p) returns exactly when both expansions end, and then
\* 'all' is the first-occurrence deduplication of the expanded __always__
\* list followed by the expanded deps of p: no duplicates, baseline tokens
\* first, then the package's.
C5_ConvertDedup ==
    Answered("convert") =>
        LET doc == Docs[got[Caller]]
            a   == ExpandAlways(doc)
            d   == ExpandPkg(doc, call[Caller].pkgs[1])
            all == out[Caller].all
            n   == Cardinality(Range(a.out))
        IN  IF a.ok /\ d.ok
            THEN /\ out[Caller].err = NoError
                 /\ IsFirstOccurrenceDedup(all, a.out \o d.out)
                 /\ Len(all) >= n
                 /\ IsFirstOccurrenceDedup(SubSeq(all, 1, n), a.out)
            ELSE out[Caller].err = "RecursionError"

\* C5 witness: __always__ = [foo, bar], __dev__ = [bar, baz] and
\* deps = [__dev__, foo, baz] gave [foo, bar, baz].
C5_Witness ==
    /\ Answered("convert")
    /\ Docs[got[Caller]] = DocDuplicate
    /\ call[Caller].pkgs = << "pkg" >>
    /\ out[Caller] = Out(NoError, << foo, bar, baz >>, << >>)

RECURSIVE ConvertAlls(_, _)
\* convert(p)['all'] for p in ps, concatenated in caller order
ConvertAlls(doc, ps) ==
    IF ps = << >> THEN << >>
    ELSE Convert(doc, Head(ps)).all \o ConvertAlls(doc, Tail(ps))

\* C6: convert_list(ps)['all'] is the first-occurrence deduplication of
\* the concatenated convert(p)['all'] in caller order: it has no
\* duplicate, holds every dependency of every package asked for, and for
\* one package equals convert(p)['all']; it is [] for no package.
C6_ConvertListMerge ==
    /\ ( /\ pc[Caller] = "done"
         /\ call[Caller].op = "convert_list"
         /\ call[Caller].pkgs = << >> )
       => out[Caller] = Out(NoError, << >>, << >>)
    /\ Answered("convert_list") =>
        LET doc == Docs[got[Caller]]
            ps  == call[Caller].pkgs
            all == out[Caller].all
        IN  IF \A i \in 1..Len(ps) : Convert(doc, ps[i]).err = NoError
            THEN /\ out[Caller].err = NoError
                 /\ IsFirstOccurrenceDedup(all, ConvertAlls(doc, ps))
                 /\ \A i \in 1..Len(ps) :
                        Range(Convert(doc, ps[i]).all) \subseteq Range(all)
                 /\ Len(ps) = 1 => all = Convert(doc, ps[1]).all
            ELSE out[Caller].err = "RecursionError"

\* C6 witness: two packages sharing the baseline were merged into one
\* list of seven tokens.
C6_Witness ==
    /\ Answered("convert_list")
    /\ Docs[got[Caller]] = DocMetaGroup
    /\ call[Caller].pkgs = << "pkg", "otherpkg" >>
    /\ out[Caller].all = << foo, bar, baz, qux, libx, liby, libz >>

\* C7: no token of convert(p)['all'] is a key that __meta__ defines as a
\* list, however deeply the reference was nested.
C7_NoGroupReference ==
    Answered("convert") =>
        \A i \in 1..Len(out[Caller].all) :
            out[Caller].all[i] \notin DOMAIN Docs[got[Caller]].groups

\* C7 witness: __dev__ = [bar, __build__], __build__ = [baz] and
\* deps = [__dev__, libx] gave [foo, bar, baz, libx].
C7_Witness ==
    /\ Answered("convert")
    /\ Docs[got[Caller]] = DocRecursive
    /\ call[Caller].pkgs = << "pkg" >>
    /\ out[Caller] = Out(NoError, << foo, bar, baz, libx >>, << >>)

\* convert(name) was answered for a name without entry, on a document
\* whose __always__ group is not empty.
UnknownWithBaseline ==
    /\ Answered("convert")
    /\ call[Caller].pkgs[1] \notin DOMAIN Docs[got[Caller]].pkgs
    /\ g_always \in DOMAIN Docs[got[Caller]].groups
    /\ Docs[got[Caller]].groups[g_always] # << >>

\* _expand_deps({'__meta__': meta}, meta['__always__'])
ExpandedBaseline(doc) ==
    ExpandDeps(MetaOnlyMapping(doc), doc.groups[g_always], 1)

\* C8 as claimed: for an unknown package and a non-empty __always__,
\* convert raises nothing and 'all' is the expanded __always__ list
\* exactly.
C8_UnknownIsExpandedBaseline ==
    UnknownWithBaseline =>
        /\ out[Caller].err = NoError
        /\ out[Caller].all = ExpandedBaseline(Docs[got[Caller]]).out

\* C8: for an unknown package and a non-empty __always__ whose expansion
\* ends, convert raises nothing and 'all' is the expanded __always__ list
\* with its repetitions removed (first occurrences kept): the expanded
\* list itself when no token repeats in it.
C8_UnknownIsBaseline ==
    (UnknownWithBaseline /\ ExpandedBaseline(Docs[got[Caller]]).ok) =>
        LET e == ExpandedBaseline(Docs[got[Caller]]).out
        IN  /\ out[Caller].err = NoError
            /\ IsFirstOccurrenceDedup(out[Caller].all, e)
            /\ NoDup(e) => out[Caller].all = e

\* C8 witness: __always__ = [__dev__, gcc, foo] with __dev__ = [gcc, bar]
\* expands to [gcc, bar, gcc, foo]; the unknown package got
\* [gcc, bar, foo].
C8_Witness ==
    /\ UnknownWithBaseline
    /\ Docs[got[Caller]] = DocCommands
    /\ ExpandedBaseline(DocCommands).out = << gcc, bar, gcc, foo >>
    /\ out[Caller] = Out(NoError, << gcc, bar, foo >>, << >>)

\* The elements of S in strictly increasing order.
Ascending(S) ==
    CHOOSE q \in [ 1..Cardinality(S) -> S ] :
        \A i \in 1..(Cardinality(S) - 1) : StrLess(q[i], q[i + 1])

\* The dependencies of all categories, as a set.
Supplied == Range(Flatten(call[Caller].deps))

\* The template of the call after interpolation.
Rendered ==
    Interpolate(Docs[got[Caller]],
                InstallCmd(Docs[got[Caller]], call[Caller].command).cmd).cmd

\* get_install_command was answered with a command string.
Commanded == Answered("get_install_command") /\ out[Caller].err = NoError

\* C9 as claimed: the command is the rendered template, one space and the
\* sorted distinct dependencies joined by single spaces, and the rendered
\* template alone when the flattened set is empty.
C9_CommandFromSet ==
    Commanded =>
        out[Caller].cmd =
            IF Supplied = {} THEN Rendered
            ELSE Rendered \o SPACE \o Join(Ascending(Supplied), SPACE)

\* C9: the command is the rendered template, one space and the sorted
\* distinct dependencies joined by single spaces; it depends on the set
\* of dependencies only, every dependency occurs in it, and it is the
\* rendered template alone, without trailing space, when the joined
\* string is empty: the flattened set is empty or holds only the empty
\* string.
C9_CommandFromDeps ==
    Commanded =>
        LET joined == Join(Ascending(Supplied), SPACE)
        IN  /\ out[Caller].cmd =
                   IF Supplied = {} \/ Supplied = { EMPTY } THEN Rendered
                   ELSE Rendered \o SPACE \o joined
            /\ \A x \in Supplied : Contains(out[Caller].cmd, x)
            /\ \A d \in SeqDeps :
                   Range(Flatten(d)) = Supplied
                       => GetInstallCommand(Docs[got[Caller]], d,
                                            call[Caller].command).cmd
                              = out[Caller].cmd

\* C9 witness: the category [bar, foo, bar] under the template
\* '${package_manager} install -y' of a dnf document gave
\* 'dnf install -y bar foo'.
C9_Witness ==
    /\ Commanded
    /\ Docs[got[Caller]] = DocCommands
    /\ call[Caller].command = "install"
    /\ call[Caller].deps = << << bar, foo, bar >> >>
    /\ out[Caller].cmd = dnf \o s_install_y \o SPACE \o bar \o SPACE \o foo

\* What get_install_command returns for template tpl.
FromTemplate(tpl) ==
    LET r == Interpolate(Docs[got[Caller]], tpl)
    IN  IF r.err # NoError THEN Out(r.err, << >>, << >>)
        ELSE Out(NoError, << >>,
                 IF Supplied = {} \/ Supplied = { EMPTY } THEN r.cmd
                 ELSE r.cmd \o SPACE \o Join(Ascending(Supplied), SPACE))

\* The legacy install_command if declared, else 'apt install -y'.
LegacyOrDefault(doc) ==
    IF "install_command" \in DOMAIN doc.strs THEN doc.strs["install_command"]
    ELSE DefaultInstall

\* Another command than 'install', without entry in the table, raises
\* ValueError and yields no command string.
UnknownCommandRaises ==
    ( /\ Answered("get_install_command")
      /\ call[Caller].command # "install"
      /\ call[Caller].command \notin DOMAIN Docs[got[Caller]].commands )
    => out[Caller] = Out("ValueError", << >>, << >>)

\* C10 as claimed: for 'install' the template is the table's 'install'
\* entry if declared, else the legacy install_command if declared, else
\* 'apt install -y'; another command without entry raises ValueError.
C10_TemplateIfDeclared ==
    /\ UnknownCommandRaises
    /\ ( Answered("get_install_command") /\ call[Caller].command = "install" )
       => LET doc == Docs[got[Caller]]
          IN  out[Caller] =
                  FromTemplate(IF "install" \in DOMAIN doc.commands
                               THEN doc.commands["install"]
                               ELSE LegacyOrDefault(doc))

\* C10: for 'install' the template is the table's 'install' entry if
\* declared and not empty, else the legacy install_command if declared,
\* else 'apt install -y'; another command without entry raises ValueError
\* and yields no command string.
C10_TemplateLookup ==
    /\ UnknownCommandRaises
    /\ ( Answered("get_install_command") /\ call[Caller].command = "install" )
       => LET doc == Docs[got[Caller]]
          IN  out[Caller] =
                  FromTemplate(IF /\ "install" \in DOMAIN doc.commands
                                  /\ doc.commands["install"] # EMPTY
                               THEN doc.commands["install"]
                               ELSE LegacyOrDefault(doc))

\* C10 witness: the table declares an empty 'install' and the document a
\* legacy install_command 'dnf install -y', which was used.
C10_Witness ==
    /\ Commanded
    /\ Docs[got[Caller]] = DocLegacy
    /\ call[Caller].command = "install"
    /\ call[Caller].deps = << << foo, bar >> >>
    /\ out[Caller].cmd = dnf \o s_install_y \o SPACE \o bar \o SPACE \o foo

\* The list the caller passed to _expand_deps.
Items == call[Caller].deps[1]

\* Token t names a list-valued group of doc: as it stands, or as a bare
\* name between the delimiters.
DenotesGroup(doc, t) ==
    \/ t \in DOMAIN doc.groups
    \/ (~StartsWith(t, UU) /\ (UU \o t \o UU) \in DOMAIN doc.groups)

\* C11: whenever _expand_deps returns a list, expanding that list again
\* against the same document returns it unchanged, and a list in which no
\* token names a list-valued group is returned as it was passed.
C11_IdempotentExpansion ==
    /\ [] ( ( /\ pc[Caller] = "done"
              /\ \A i \in 1..Len(Items) :
                     ~DenotesGroup(Docs[content], Items[i]) )
            => out[Caller] = Out(NoError, Items, << >>) )
    /\ [][ (pc[Caller] = "done" /\ pc'[Caller] = "again")
           => out'[Caller] = out[Caller] ]_vars

\* C11 witness: [__dev__, foo] gave [bar, baz, foo] under
\* __dev__ = [bar, __build__], __build__ = [baz], and the second expansion
\* has returned.
C11_Witness ==
    /\ pc[Caller] = "again"
    /\ Docs[content] = DocRecursive
    /\ Items = << g_dev, foo >>
    /\ out[Caller] = Out(NoError, << bar, baz, foo >>, << >>)


\* The definition of the group that token t names in doc.
Definition(doc, t) ==
    IF t \in DOMAIN doc.groups THEN doc.groups[t] ELSE doc.groups[UU \o t \o UU]

RECURSIVE Flattened(_, _, _)
\* The tokens of todo read from left to right, a token that names a group
\* giving way, where it stands, to the tokens of its definition; emitted
\* holds the tokens already passed.
Flattened(doc, emitted, todo) ==
    IF todo = << >> THEN emitted
    ELSE IF DenotesGroup(doc, Head(todo))
    THEN Flattened(doc, emitted, Definition(doc, Head(todo)) \o Tail(todo))
    ELSE Flattened(doc, Append(emitted, Head(todo)), Tail(todo))

\* C12: the list _expand_deps returns is the depth-first, left-to-right
\* flattening of its input: every token naming a list-valued group stands
\* replaced, at its own position and to any depth, by the tokens of its
\* definition, and the other tokens keep their relative order.
C12_DepthFirstFlattening ==
    (pc[Caller] = "done" /\ out[Caller].err = NoError)
        => out[Caller].all = Flattened(Docs[content], << >>, Items)

\* C12 witness: [foo, __dev__] gave [foo, bar, baz] under
\* __dev__ = [bar, __build__], __build__ = [baz].
C12_Witness ==
    /\ pc[Caller] = "done"
    /\ Docs[content] = DocRecursive
    /\ Items = << foo, g_dev >>
    /\ out[Caller] = Out(NoError, << foo, bar, baz >>, << >>)


\* C13: once the cache holds a document, no step of any call, under any
\* interleaving, changes it or puts another one in its place, and every
\* document _get_content handed to a caller is still the cached one.
C13_CachedDocumentReadOnly ==
    /\ [] ( \A t \in Threads : got[t] # None => got[t] = content )
    /\ [][ /\ content # None => content' = content
           /\ \A t \in Threads :
                  (pc[t] = "return" /\ pc'[t] # "return")
                      => (got'[t] = content /\ content' = content) ]_vars

\* C13 witness: a convert_list over two packages and a get_install_command
\* have both run to their end on the document of one load, which is still
\* the one cached.
C13_Witness ==
    /\ content = 4
    /\ loads = 1
    /\ \E t \in Completed, u \in Completed :
           /\ call[t].op = "convert_list" /\ Len(call[t].pkgs) = 2
           /\ call[u].op = "get_install_command"
           /\ out[t].err = NoError /\ out[u].err = NoError
           /\ got[t] = 4 /\ got[u] = 4


\* The command line main was started with.
Argv == call[Caller].args

RECURSIVE Options(_, _)
\* The positions of args, from i on, that are read as a flag or a package
\* name: --txt and --toml take the next word, if there is one, as their
\* file.
Options(args, i) ==
    IF i > Len(args) THEN {}
    ELSE IF args[i] \in { "--txt", "--toml" } /\ i < Len(args)
    THEN { i } \cup Options(args, i + 2)
    ELSE { i } \cup Options(args, i + 1)

\* The file the last flag `flag` of the command line names, "" if none.
FileOf(args, flag) ==
    LET at == { i \in Options(args, 1) : args[i] = flag /\ i < Len(args) }
    IN  IF at = {} THEN ""
        ELSE args[(CHOOSE i \in at : \A j \in at : j <= i) + 1]

\* The words of the command line that are package names.
Positional(args) ==
    { i \in Options(args, 1) :
          /\ args[i] \notin { "--local", "--install", "--show-input",
                              "--separator=space", "--separator=tab" }
          /\ ~(args[i] \in { "--txt", "--toml" } /\ i < Len(args)) }

\* No package name on the command line, none in the files named.
NoPackages(args) ==
    /\ Positional(args) = {}
    /\ FileOf(args, "--txt") \in { "", "empty" }
    /\ FileOf(args, "--toml") \in { "", "empty" }

\* main never got to a resolver: no document loaded, no command run, and
\* if it has ended, it has with the given exit code.
ExitsBeforeLoad(code) ==
    /\ loads = 0
    /\ content = None
    /\ ~out[Caller].ran
    /\ pc[Caller] \in { "idle", "parsed", "done" }
    /\ pc[Caller] = "done" => out[Caller].code = code

\* C14 as claimed: a command line with an unknown --separator value, with
\* both --txt and --toml, or without any resulting package exits with
\* code 1 before a document is loaded or a command run.
C14_UsageErrorsExitOne ==
    ( \/ "--separator=tab" \in Range(Argv)
      \/ ("--txt" \in Range(Argv) /\ "--toml" \in Range(Argv))
      \/ NoPackages(Argv) )
    => ExitsBeforeLoad(1)

\* C14: without --help, a command line with an unknown --separator value
\* (not read as the file of --txt or --toml), with both --txt and --toml
\* followed by a file, or without any resulting package exits with code 1
\* before a document is loaded or a command run; with --help main exits
\* with code 0, whatever else the command line holds.
C14_UsageErrors ==
    LET opts    == Options(Argv, 1)
        badSep  == \E i \in opts : Argv[i] = "--separator=tab"
        twoFile == FileOf(Argv, "--txt") # "" /\ FileOf(Argv, "--toml") # ""
    IN  IF "--help" \in Range(Argv) THEN ExitsBeforeLoad(0)
        ELSE (badSep \/ twoFile \/ NoPackages(Argv)) => ExitsBeforeLoad(1)

\* C14 witness: --txt deps --toml deps --install has exited with code 1,
\* nothing loaded, nothing run.
C14_Witness ==
    /\ pc[Caller] = "done"
    /\ Argv = << "--txt", "deps", "--toml", "deps", "--install" >>
    /\ out[Caller].code = 1
    /\ loads = 0
    /\ ~out[Caller].ran


\* C15 as claimed: a reference to a group whose list is defined at the
\* document root is replaced by convert like a reference to a __meta__
\* group: no key of a root-level list is left in 'all', and the tokens of
\* its definition are there instead.
C15_RootGroupsHonoured ==
    (Answered("convert") /\ out[Caller].err = NoError) =>
        LET doc  == Docs[got[Caller]]
            deps == PkgDeps(doc, call[Caller].pkgs[1])
        IN  \A i \in 1..Len(deps) :
                deps[i] \in DOMAIN doc.rootLists
                    => /\ deps[i] \notin Range(out[Caller].all)
                       /\ \A j \in 1..Len(doc.rootLists[deps[i]]) :
                              doc.rootLists[deps[i]][j] \in Range(out[Caller].all)


\* Token t has the form __name__ and neither __meta__ nor the document
\* root defines it as a list.
Unresolved(doc, t) ==
    /\ Len(t) >= 4
    /\ SubSeq(t, 1, 2) = UU
    /\ SubSeq(t, Len(t) - 1, Len(t)) = UU
    /\ t \notin DOMAIN doc.groups
    /\ t \notin DOMAIN doc.rootLists

\* C16: a token __name__ of a package's deps that has no list-valued
\* definition (none at all, or one that is not a list) is emitted as it is
\* at its position: convert raises nothing when the tokens around it
\* expand, 'all' holds the token, and 'all' is the baseline, the expansion
\* of the tokens before it, the token, and the expansion of those after
\* it, first occurrences kept; the expander of src/src/pip2sysdep.py
\* keeps the token too.
C16_UnresolvedIsLiteral ==
    Answered("convert") =>
        LET doc  == Docs[got[Caller]]
            deps == PkgDeps(doc, call[Caller].pkgs[1])
        IN  \A i \in 1..Len(deps) :
                Unresolved(doc, deps[i]) =>
                    LET a == ExpandAlways(doc)
                        b == ExpandTop(doc, SubSeq(deps, 1, i - 1))
                        c == ExpandTop(doc, SubSeq(deps, i + 1, Len(deps)))
                        l == LegacyExpandDeps(doc.groups, deps, 1)
                    IN  (a.ok /\ b.ok /\ c.ok) =>
                            /\ out[Caller].err = NoError
                            /\ deps[i] \in Range(out[Caller].all)
                            /\ IsFirstOccurrenceDedup(
                                   out[Caller].all,
                                   a.out \o b.out \o << deps[i] >> \o c.out)
                            /\ l.ok /\ deps[i] \in Range(l.out)

\* C16 witness: deps = ['', '__meta__'], where __meta__ is the metadata
\* table and no list, gave ['', '__meta__'].
C16_Witness ==
    /\ Answered("convert")
    /\ Docs[got[Caller]] = DocLegacy
    /\ call[Caller].pkgs = << "otherpkg" >>
    /\ Unresolved(DocLegacy, g_meta)
    /\ out[Caller] = Out(NoError, << EMPTY, g_meta >>, << >>)


\* The groups of doc that the tokens of items name; when bare is FALSE a
\* token names a group only when written between the delimiters.
Named(doc, items, bare) ==
    { g \in DOMAIN doc.groups :
          \E i \in 1..Len(items) :
              \/ items[i] = g
              \/ (bare /\ DenotesGroup(doc, items[i]) /\ g = UU \o items[i] \o UU) }

RECURSIVE Closure(_, _, _, _)
\* The groups reached from the set S of groups in at most n steps of
\* 'the definition of one names the other', S included.
Closure(doc, S, bare, n) ==
    IF n = 0 THEN S
    ELSE Closure(doc,
                 S \cup UNION { Named(doc, doc.groups[g], bare) : g \in S },
                 bare, n - 1)

\* A group that the input reaches has a definition that leads back to it.
SelfReference(doc, items, bare) ==
    LET n == Cardinality(DOMAIN doc.groups)
    IN  \E g \in Closure(doc, Named(doc, items, bare), bare, n) :
            g \in Closure(doc, Named(doc, doc.groups[g], bare), bare, n)

\* C17 as claimed: _expand_deps returns a list exactly when no group
\* reached from the input has a definition that holds, directly or
\* through other groups, the token __name__ of that same group; otherwise
\* the recursion goes on to the interpreter's limit and nothing is
\* returned.
C17_TerminatesUnlessDelimitedCycle ==
    pc[Caller] = "done" =>
        IF SelfReference(Docs[content], Items, FALSE)
        THEN out[Caller] = Out("RecursionError", << >>, << >>)
        ELSE out[Caller].err = NoError

\* C17: _expand_deps returns a list exactly when no group reached from
\* the input has a definition that holds, directly or through other
\* groups, a token naming that same group, be it written __name__ or as
\* the bare name that is promoted to it; otherwise no cycle is detected,
\* the recursion goes on to the interpreter's limit (RecursionError) and
\* nothing is returned.
C17_TerminatesUnlessCycle ==
    pc[Caller] = "done" =>
        IF SelfReference(Docs[content], Items, TRUE)
        THEN out[Caller] = Out("RecursionError", << >>, << >>)
        ELSE out[Caller].err = NoError

\* C17 witness: under __dev__ = [bar, dev] the list [foo, __dev__] never
\* finished expanding.
C17_Witness ==
    /\ pc[Caller] = "done"
    /\ Docs[content] = DocBareLoop
    /\ Items = << foo, g_dev >>
    /\ out[Caller] = Out("RecursionError", << >>, << >>)


\* Every list-valued key of __meta__ has the form __name__.
KeysDelimited(doc) ==
    \A k \in DOMAIN doc.groups :
        /\ Len(k) >= 4
        /\ SubSeq(k, 1, 2) = UU
        /\ SubSeq(k, Len(k) - 1, Len(k)) = UU

\* The tokens of items and of the definitions of all groups reached from
\* them.
TokensAtAnyDepth(doc, items) ==
    Range(items)
        \cup UNION { Range(doc.groups[g]) :
                       g \in Closure(doc, Named(doc, items, TRUE), TRUE,
                                     Cardinality(DOMAIN doc.groups)) }

\* The keys of __meta__ are all of the form __name__, and no token at any
\* depth is a bare name t with __t__ defined as a list.
NothingToPromote(doc, items) ==
    /\ KeysDelimited(doc)
    /\ \A t \in TokensAtAnyDepth(doc, items) :
           (Len(t) >= 2 /\ SubSeq(t, 1, 2) = UU)
               \/ (UU \o t \o UU) \notin DOMAIN doc.groups

\* meta.get('__always__', []) followed by the deps of the package
BaselineAndDeps(doc, p) ==
    (IF g_always \in DOMAIN doc.groups THEN doc.groups[g_always] ELSE << >>)
        \o PkgDeps(doc, p)

\* C18: on a document whose list-valued __meta__ keys all have the form
\* __name__, and an input in which no bare token at any depth is the name
\* of a group, the _expand_deps of the package and the _expand_deps of
\* src/src/pip2sysdep.py end alike (the same list, or both in
\* RecursionError), and so do the two convert.
C18_PermissiveSubsumesStrict ==
    LET doc == Docs[content]
    IN  /\ (pc[Caller] = "done" /\ NothingToPromote(doc, Items))
               => out[Caller] =
                      ExpandOut(LegacyExpandDeps(doc.groups, Items, 1))
        /\ (pc[Caller] = "legacy" /\ NothingToPromote(doc, Items))
               => out[Caller] = ExpandOut(ExpandTop(doc, Items))
        /\ pc[Caller] = "legacy" =>
               \A p \in PkgNames :
                   NothingToPromote(doc, BaselineAndDeps(doc, p))
                       => Convert(doc, p) = LegacyConvert(doc, p)

\* C18 witness: the legacy expander has turned [__dev__, __root__] into
\* [baz, __root__] on a document with a root-level group, as the package's
\* does.
C18_Witness ==
    /\ pc[Caller] = "legacy"
    /\ Docs[content] = DocLegacy
    /\ Items = << g_dev, g_root >>
    /\ NothingToPromote(DocLegacy, Items)
    /\ out[Caller] = Out(NoError, << baz, g_root >>, << >>)


RECURSIVE ReplacedFrom(_, _, _)
\* s from position i on, each occurrence of the placeholder replaced by pm
\* and every other character kept.
ReplacedFrom(s, i, pm) ==
    IF i > Len(s) THEN << >>
    ELSE IF /\ i + Len(Placeholder) - 1 <= Len(s)
            /\ SubSeq(s, i, i + Len(Placeholder) - 1) = Placeholder
    THEN pm \o ReplacedFrom(s, i + Len(Placeholder), pm)
    ELSE << s[i] >> \o ReplacedFrom(s, i + 1, pm)

\* C19: for every command template that contains the placeholder
\* ${package_manager}, get_install_command succeeds and the command starts
\* with the template in which each occurrence of the placeholder is
\* replaced by the package_manager of the metadata (default 'apt') and
\* every other character is unchanged; a template without the placeholder
\* is used verbatim.
C19_SubstitutionTotalAndLocal ==
    ( /\ Answered("get_install_command")
      /\ InstallCmd(Docs[got[Caller]], call[Caller].command).err = NoError )
    => LET doc == Docs[got[Caller]]
           tpl == InstallCmd(doc, call[Caller].command).cmd
           pm  == GetOr(doc.strs, "package_manager", apt)
           deps_str == Join(Ascending(Supplied), SPACE)
       IN  /\ out[Caller].err = NoError
           /\ out[Caller].cmd =
                  FullCommand(IF Contains(tpl, Placeholder)
                              THEN ReplacedFrom(tpl, 1, pm)
                              ELSE tpl,
                              deps_str)


\* Thread t is inside _get_content: waiting for the lock, holding it, or
\* past the with block and about to return.
Inside(t) == pc[t] \in { "acquire", "locked", "load", "release", "return" }

\* C20: under fair scheduling every call of _get_content by any thread
\* ends, with the document returned or with the exception of its load,
\* and the content lock is free whenever no call is inside _get_content,
\* also after a load that raised.
C20_NoCallerBlocksForever ==
    /\ \A t \in Threads :
           Inside(t) ~>
               ( /\ pc[t] = "done"
                 /\ \/ out[t].err = NoError /\ got[t] \in DocIds
                    \/ out[t].err \in LoadErrors )
    /\ []((\A t \in Threads : ~Inside(t)) => content_lock = Unlocked)

\* C20 witness: a load has raised in one thread, which got
\* FileNotFoundError, and another thread has since taken the lock, loaded
\* the document and returned it; no call is inside and the lock is free.
C20_Witness ==
    /\ \A t \in Threads : ~Inside(t)
    /\ content_lock = Unlocked
    /\ fails >= 1
    /\ \E t \in Threads : pc[t] = "done" /\ out[t].err = "FileNotFoundError"
    /\ \E t \in Threads :
           pc[t] = "done" /\ out[t].err = NoError /\ got[t] \in DocIds


=============================================================================
